---- MODULE Spec2Model ----
(***************************************************************************)
(* The proposal page of the application: the AgentPage component           *)
(* (src/src/Pages/AgentPage.jsx) and the payment helper handleSuiPayment   *)
(* (src/src/utils/suiTransfer.js).                                         *)
(*                                                                         *)
(* The state is the component's hook state (loading, formData,             *)
(* previewUrl), the values of the wallet hook, the pending FileReader      *)
(* reads, and one record per live invocation of the async handler          *)
(* handleSubmit.  One action models one event handler or one continuation  *)
(* of handleSubmit between two awaits: the microtasks that follow the      *)
(* settling of an awaited promise run to the next await before the event   *)
(* loop dispatches another event, and React commits the state updates of   *)
(* a discrete event (click, submit, change) before the next event is       *)
(* dispatched, so the closures of the handlers always hold the state of    *)
(* the latest step.                                                        *)
(*                                                                         *)
(* The environment is not narrowed beyond what the component itself        *)
(* enforces: the wallet hook may hold any of the value combinations the    *)
(* handler tests, and a submit event may arrive with empty text fields     *)
(* (the inputs' required attributes are not relied on); the one gate on    *)
(* the submit event is the button's disabled attribute.  A slot keeps the  *)
(* record of its finished invocation, as history, until a later submit     *)
(* event starts a new invocation in it.                                    *)
(*                                                                         *)
(* Strings the code inspects (error messages, MIME types) are sequences    *)
(* of one-character strings, so that includes, startsWith and toLowerCase  *)
(* are computed as the code computes them.                                 *)
(***************************************************************************)
EXTENDS Integers, Sequences, FiniteSets, TLC

(* ------------------------------ bounds --------------------------------- *)

\* Invocations of handleSubmit that can be live (or remembered) at once.
MaxInFlight == 2

\* Successful wallet executions in one behaviour (caps the digest counter).
MaxPayments == 2

(* --------------------------- string helpers ---------------------------- *)

UpperCase ==
  <<"A", "B", "C", "D", "E", "F", "G", "H", "I", "J", "K", "L", "M",
    "N", "O", "P", "Q", "R", "S", "T", "U", "V", "W", "X", "Y", "Z">>

LowerCase ==
  <<"a", "b", "c", "d", "e", "f", "g", "h", "i", "j", "k", "l", "m",
    "n", "o", "p", "q", "r", "s", "t", "u", "v", "w", "x", "y", "z">>

\* String.prototype.toLowerCase, one character.
ToLowerChar(c) ==
  IF \E i \in 1..Len(UpperCase) : UpperCase[i] = c
    THEN LowerCase[CHOOSE i \in 1..Len(UpperCase) : UpperCase[i] = c]
    ELSE c

\* String.prototype.toLowerCase.
ToLowerCase(s) == [i \in 1..Len(s) |-> ToLowerChar(s[i])]

\* String.prototype.includes.
Includes(s, needle) ==
  \E i \in 0..(Len(s) - Len(needle)) : SubSeq(s, i + 1, i + Len(needle)) = needle

\* String.prototype.startsWith.
StartsWith(s, prefix) ==
  /\ Len(s) >= Len(prefix)
  /\ SubSeq(s, 1, Len(prefix)) = prefix

\* The value of error.message when the thrown value has no message.
Undefined == <<"(undefined)">>

\* The error slot of an invocation in which nothing was thrown.
NoError == <<"(none)">>

(* --------------------------- string literals --------------------------- *)

STR_insufficient == <<"i", "n", "s", "u", "f", "f", "i", "c", "i", "e", "n", "t">>
STR_reject == <<"r", "e", "j", "e", "c", "t">>
STR_PaymentCancelled ==
  <<"P", "a", "y", "m", "e", "n", "t", " ", "c", "a", "n", "c", "e", "l", "l", "e", "d">>
STR_UserRejected ==
  <<"U", "s", "e", "r", " ", "r", "e", "j", "e", "c", "t", "e", "d">>
STR_Insufficient == <<"I", "n", "s", "u", "f", "f", "i", "c", "i", "e", "n", "t">>
STR_InsufficientSuiBalance ==
  <<"I", "n", "s", "u", "f", "f", "i", "c", "i", "e", "n", "t", " ", "S", "U", "I", " ",
    "b", "a", "l", "a", "n", "c", "e">>
STR_UserRejectedTheTransaction ==
  <<"U", "s", "e", "r", " ", "r", "e", "j", "e", "c", "t", "e", "d", " ", "t", "h", "e",
    " ", "t", "r", "a", "n", "s", "a", "c", "t", "i", "o", "n">>
STR_WalletNotConnected ==
  <<"W", "a", "l", "l", "e", "t", " ", "n", "o", "t", " ", "c", "o", "n", "n", "e", "c",
    "t", "e", "d">>
STR_TransactionFailed ==
  <<"T", "r", "a", "n", "s", "a", "c", "t", "i", "o", "n", " ", "f", "a", "i", "l", "e",
    "d", ".", " ", "P", "l", "e", "a", "s", "e", " ", "t", "r", "y", " ", "a", "g", "a",
    "i", "n", ".">>
STR_imageSlash == <<"i", "m", "a", "g", "e", "/">>

(* ----------------- inputs the environment can supply ------------------- *)

\* Messages of the errors the wallet's signer can reject with.
PayErrors ==
  { <<"I", "n", "s", "u", "f", "f", "i", "c", "i", "e", "n", "t", " ", "g", "a", "s">>,
    <<"I", "N", "S", "U", "F", "F", "I", "C", "I", "E", "N", "T">>,
    <<"U", "s", "e", "r", " ", "r", "e", "j", "e", "c", "t", "e", "d", " ", "t", "h", "e",
      " ", "r", "e", "q", "u", "e", "s", "t">>,
    <<"R", "E", "J", "E", "C", "T", "E", "D">>,
    <<"R", "e", "j", "e", "c", "t", "e", "d", ":", " ", "i", "n", "s", "u", "f", "f", "i",
      "c", "i", "e", "n", "t", " ", "f", "u", "n", "d", "s">>,
    <<"t", "i", "m", "e", "o", "u", "t">>,
    <<"P", "a", "y", "m", "e", "n", "t", " ", "c", "a", "n", "c", "e", "l", "l", "e", "d",
      " ", "b", "y", " ", "w", "a", "l", "l", "e", "t">>,
    <<>>,
    Undefined }

\* Messages of the errors the awaited axios.post can reject with: the two
\* that axios composes itself, and one composed elsewhere (an interceptor, a
\* custom adapter or timeoutErrorMessage).
PostErrors ==
  { <<"N", "e", "t", "w", "o", "r", "k", " ", "E", "r", "r", "o", "r">>,
    <<"R", "e", "q", "u", "e", "s", "t", " ", "f", "a", "i", "l", "e", "d", " ", "w", "i",
      "t", "h", " ", "s", "t", "a", "t", "u", "s", " ", "c", "o", "d", "e", " ", "5", "0",
      "0">>,
    <<"I", "n", "s", "u", "f", "f", "i", "c", "i", "e", "n", "t", " ", "s", "t", "o", "r",
      "a", "g", "e">> }

\* Values a text input can be given.
NameValues == {"", "Bot"}
TwitterValues == {"", "@bot"}
WebsiteValues == {"", "https://bot.example"}
DescriptionValues == {"", "desc"}

NoAccount == "(no account)"
Addresses == {"0xA1", "0xA2"}

\* What useWallet() can return: { connected, account, signAndExecuteTransactionBlock }.
WalletStates ==
  { [connected |-> FALSE, account |-> NoAccount, signer |-> FALSE],
    [connected |-> TRUE, account |-> NoAccount, signer |-> TRUE],
    [connected |-> TRUE, account |-> "0xA1", signer |-> FALSE],
    [connected |-> TRUE, account |-> "0xA1", signer |-> TRUE],
    [connected |-> TRUE, account |-> "0xA2", signer |-> TRUE] }

\* 5 * 1024 * 1024, the size limit of handleImageUpload.
MaxImageBytes == 5 * 1024 * 1024

\* e.target.files[0] when the file dialog was closed without a choice, and
\* formData.profilePicture when it is null.
NoFile == [name |-> "(none)", size |-> 0, type |-> <<>>]

\* Files the user can select.
Files ==
  { [name |-> "exact.png", size |-> MaxImageBytes,
     type |-> <<"i", "m", "a", "g", "e", "/", "p", "n", "g">>],
    [name |-> "big.png", size |-> MaxImageBytes + 1,
     type |-> <<"i", "m", "a", "g", "e", "/", "p", "n", "g">>],
    [name |-> "notes.txt", size |-> 10,
     type |-> <<"t", "e", "x", "t", "/", "p", "l", "a", "i", "n">>],
    [name |-> "odd.bin", size |-> 10,
     type |-> <<"x", "i", "m", "a", "g", "e", "/", "p", "n", "g">>],
    [name |-> "empty.type", size |-> 0, type |-> <<>>] }

\* The files of a user who has a second acceptable image at hand.
Album ==
  Files \cup { [name |-> "small.jpg", size |-> 1024,
                type |-> <<"i", "m", "a", "g", "e", "/", "j", "p", "e", "g">>] }

\* FileReader.readAsDataURL: the data URL of a file.
DataURL(file) == [scheme |-> "data", mime |-> file.type, of |-> file.name]

\* previewUrl === null.
NullUrl == [scheme |-> "null", mime |-> <<>>, of |-> "(none)"]

(* ------------------- suiTransfer.js: handleSuiPayment ------------------ *)

\* const SUI_AMOUNT = BigInt(1_000_000_000)
SUI_AMOUNT == 1000000000

\* suiTransfer.js holds the module twice: lines 44-85 repeat lines 1-42 with
\* another FUND_RECEIVER_ADDRESS. The source does not say which of the two
\* declarations of handleSuiPayment the import in AgentPage.jsx is bound to;
\* the binding is made once, when the bundle is built, and is the same for
\* every call.
VARIABLE binding

Copies == {"first", "second"}

\* const FUND_RECEIVER_ADDRESS of the first copy
FUND_RECEIVER_ADDRESS ==
  "0xc4000ea0fd3244857575799ef4f8164c7b42d1c5bf840cfd54030f608b07556d"

\* const FUND_RECEIVER_ADDRESS of the second copy
FUND_RECEIVER_ADDRESS_2 ==
  "0x564e18f3d2a1051b66562ecda8744601ab83ac187307625ba59981e11c1e2649"

\* FUND_RECEIVER_ADDRESS as the bound copy declares it.
Receiver ==
  IF binding = "first" THEN FUND_RECEIVER_ADDRESS ELSE FUND_RECEIVER_ADDRESS_2

PaymentResult_WholeCoin(digest) ==
  [digest |-> digest, status |-> "success", amount |-> 1, receiver |-> Receiver]

\* The object handleSuiPayment returns when the signer's promise resolves.
PaymentResult(digest) ==
  [digest |-> digest, status |-> "success", amount |-> SUI_AMOUNT,
   receiver |-> Receiver]

\* paymentResult before the payment call has returned.
NoReceipt == [digest |-> 0, status |-> "(none)", amount |-> 0, receiver |-> "(none)"]

\* error.message?.toLowerCase().includes(needle)
LowerIncludes(message, needle) ==
  /\ message # Undefined
  /\ Includes(ToLowerCase(message), needle)

ClassifyPaymentError_RejectFirst(message) ==
  IF LowerIncludes(message, STR_reject) THEN STR_UserRejectedTheTransaction
  ELSE IF LowerIncludes(message, STR_insufficient) THEN STR_InsufficientSuiBalance
  ELSE message

\* The catch block of handleSuiPayment: the message of the error it throws
\* for a signer error with the given message.
ClassifyPaymentError(message) ==
  IF LowerIncludes(message, STR_insufficient) THEN STR_InsufficientSuiBalance
  ELSE IF LowerIncludes(message, STR_reject) THEN STR_UserRejectedTheTransaction
  ELSE message

(* ---------------------- AgentPage.jsx: pure parts ---------------------- *)

\* The initial value of formData, and the value the success path resets it to.
InitialFormData ==
  [name |-> "", twitter |-> "", website |-> "", description |-> "",
   profilePicture |-> NoFile]

RequiredMissing_NoDescription(fd) == fd.name = "" \/ fd.twitter = ""

\* !formData.name || !formData.twitter || !formData.description
RequiredMissing(fd) == fd.name = "" \/ fd.twitter = "" \/ fd.description = ""

FileRejected_AtLimit(file) ==
  \/ file.size >= MaxImageBytes
  \/ ~StartsWith(file.type, STR_imageSlash)

\* The two early returns of handleImageUpload.
FileRejected(file) ==
  \/ file.size > MaxImageBytes
  \/ ~StartsWith(file.type, STR_imageSlash)

\* The toast handleImageUpload raises for a rejected file.
UploadErrorLine(file) == IF file.size > MaxImageBytes THEN 33 ELSE 38

\* error.message?.includes(needle)
OptIncludes(message, needle) ==
  /\ message # Undefined
  /\ Includes(message, needle)

STR_PaymentCancelledByUser ==
  <<"P", "a", "y", "m", "e", "n", "t", " ", "c", "a", "n", "c", "e", "l", "l", "e", "d",
    " ", "b", "y", " ", "u", "s", "e", "r">>
STR_TransactionRejectedByUser ==
  <<"T", "r", "a", "n", "s", "a", "c", "t", "i", "o", "n", " ", "r", "e", "j", "e", "c",
    "t", "e", "d", " ", "b", "y", " ", "u", "s", "e", "r">>

\* The catch block of handleSubmit: the toast.error call made for a caught
\* error with the given message (the line of the call and its text).
CatchToast(message) ==
  IF OptIncludes(message, STR_PaymentCancelled)
    THEN [line |-> 154, text |-> STR_PaymentCancelledByUser]
  ELSE IF OptIncludes(message, STR_UserRejected)
    THEN [line |-> 156, text |-> STR_TransactionRejectedByUser]
  ELSE IF OptIncludes(message, STR_Insufficient)
    THEN [line |-> 158, text |-> STR_InsufficientSuiBalance]
  ELSE [line |-> 160,
        text |-> IF message = Undefined \/ message = <<>>
                   THEN STR_TransactionFailed ELSE message]

\* No toast.error was made by the catch block.
NoToast == [line |-> 0, text |-> <<>>]

\* One call of the toast library.
Toast(kind, line) == [kind |-> kind, line |-> line]

(* -------------------------------- state -------------------------------- *)

VARIABLES
  connected,    \* useWallet().connected
  account,      \* useWallet().account?.address, or NoAccount
  signer,       \* whether useWallet().signAndExecuteTransactionBlock is non-null
  loading,      \* useState(false)
  formData,     \* useState({ name, twitter, website, description, profilePicture })
  previewUrl,   \* useState(null)
  readers,      \* the files of the FileReaders whose read has not ended
  attempts,     \* the invocations of handleSubmit, by slot (with, as history,
                \* cause: the message the signer rejected with)
  posted,       \* payment_tx of every POST /api/proposals issued, in order
  nextDigest,   \* the digest the wallet gives its next executed transaction
  raised        \* the toast calls made by the latest step, in order

vars ==
  <<binding, connected, account, signer, loading, formData, previewUrl, readers,
    attempts, posted, nextDigest, raised>>

wallet == <<connected, account, signer>>

Slots == 1..MaxInFlight

\* submitData before it is built.
NoRequest ==
  [name |-> "", twitter |-> "", website |-> "", description |-> "",
   creator_wallet |-> NoAccount, payment_tx |-> 0, profilePicture |-> NoFile]

\* A slot no invocation has used.
Unused ==
  [pc |-> "unused", form |-> InitialFormData, account |-> NoAccount,
   signer |-> FALSE, prompts |-> 0, txb |-> FALSE, signCalls |-> 0,
   pay |-> "unissued",
   receipt |-> NoReceipt, posts |-> 0, post |-> "unissued", request |-> NoRequest,
   cause |-> NoError, failedAt |-> "(none)", error |-> NoError, shown |-> NoToast,
   navs |-> 0]

\* An invocation is live from its submit event to the end of its finally block.
Live(a) == a.pc \in {"confirm", "paying", "submitting"}

\* The slot a new invocation takes: the lowest one holding no live invocation.
HasFreeSlot == \E i \in Slots : ~Live(attempts[i])
FreeSlot == CHOOSE i \in Slots : ~Live(attempts[i]) /\ \A j \in 1..(i - 1) : Live(attempts[j])

InitPage ==
  /\ \E w \in WalletStates :
       /\ connected = w.connected
       /\ account = w.account
       /\ signer = w.signer
  /\ loading = FALSE
  /\ formData = InitialFormData
  /\ previewUrl = NullUrl
  /\ readers = {}
  /\ attempts = [i \in Slots |-> Unused]
  /\ posted = <<>>
  /\ nextDigest = 1
  /\ raised = <<>>

\* The page as mounted, with handleSuiPayment bound to the first copy. Nothing
\* but the receiver field of a receipt depends on the binding.
Init == InitPage /\ binding = "first"

\* The page as mounted, under either binding.
InitBuilds == InitPage /\ binding \in Copies

(* ------------------------ events outside handleSubmit ------------------ *)

\* The wallet provider re-renders the component with new hook values.
WalletChange ==
  /\ \E w \in WalletStates :
       /\ <<w.connected, w.account, w.signer>> # wallet
       /\ connected' = w.connected
       /\ account' = w.account
       /\ signer' = w.signer
  /\ raised' = <<>>
  /\ UNCHANGED <<binding, loading, formData, previewUrl, readers, attempts, posted,
                 nextDigest>>

\* onChange of the four text inputs: setFormData({ ...formData, field: value }).
FieldValues(field) ==
  CASE field = "name" -> NameValues
    [] field = "twitter" -> TwitterValues
    [] field = "website" -> WebsiteValues
    [] field = "description" -> DescriptionValues

EditField ==
  /\ \E field \in {"name", "twitter", "website", "description"} :
       \E value \in FieldValues(field) :
         /\ value # formData[field]
         /\ formData' = [formData EXCEPT ![field] = value]
  /\ raised' = <<>>
  /\ UNCHANGED <<binding, wallet, loading, previewUrl, readers, attempts, posted, nextDigest>>

\* handleImageUpload with e.target.files[0] = file.
SelectFile(file) ==
  IF file = NoFile
    THEN /\ raised' = <<>>
         /\ UNCHANGED <<formData, readers>>
    ELSE IF FileRejected(file)
      THEN /\ raised' = <<Toast("error", UploadErrorLine(file))>>
           /\ UNCHANGED <<formData, readers>>
      ELSE /\ formData' = [formData EXCEPT !.profilePicture = file]
           /\ readers' = readers \cup {file}
           /\ raised' = <<>>

\* handleImageUpload: onChange of the file input.
HandleImageUpload == \E file \in Files \cup {NoFile} : SelectFile(file)

ImageUpload ==
  /\ HandleImageUpload
  /\ UNCHANGED <<binding, wallet, loading, previewUrl, attempts, posted, nextDigest>>

\* reader.onloadend of one pending read: setPreviewUrl(reader.result).
ReadEnds ==
  /\ \E file \in readers :
       /\ previewUrl' = DataURL(file)
       /\ readers' = readers \ {file}
  /\ raised' = <<>>
  /\ UNCHANGED <<binding, wallet, loading, formData, attempts, posted, nextDigest>>

(* ----------------------------- handleSubmit ---------------------------- *)

SubmitDisabled_ConnectedOnly == ~connected

\* disabled={loading || !connected} of the submit button: a submit event is
\* dispatched only while the button is enabled.
SubmitDisabled == loading \/ ~connected

\* if (!connected || !account)
WalletMissing == ~connected \/ account = NoAccount

SignerMissing_Never == FALSE

\* if (!signAndExecuteTransactionBlock)
SignerMissing == ~signer

\* The invocation after setLoading(true), with the confirmation prompt shown
\* and the closure's formData, account and signer.
NewAttempt(fd, acct, sgn) ==
  [Unused EXCEPT !.pc = "confirm", !.form = fd, !.account = acct, !.signer = sgn,
                 !.prompts = 1]

\* The handler returns after its finally block: its locals paymentResult and
\* submitData and the render's closure (formData, account, the signer) are gone.
Return(a) ==
  [a EXCEPT !.pc = "done", !.receipt = NoReceipt, !.request = NoRequest,
            !.form = InitialFormData, !.account = NoAccount, !.signer = FALSE]

\* An error thrown inside the try block at the given await reaches the catch
\* block, which raises one toast.error, and then the finally block.
Caught(a, at, message) ==
  Return([a EXCEPT !.failedAt = at, !.error = message, !.shown = CatchToast(message)])

SubmitData_CurrentAccount(fd, acct, digest) ==
  [name |-> fd.name, twitter |-> fd.twitter, website |-> fd.website,
   description |-> fd.description, creator_wallet |-> account, payment_tx |-> digest,
   profilePicture |-> fd.profilePicture]

\* submitData: the fields appended to the FormData of the POST.
SubmitData(fd, acct, digest) ==
  [name |-> fd.name, twitter |-> fd.twitter, website |-> fd.website,
   description |-> fd.description, creator_wallet |-> acct, payment_tx |-> digest,
   profilePicture |-> fd.profilePicture]

IssuePost_Rereads(a, digest) ==
  [a EXCEPT !.form = formData, !.request = SubmitData(formData, a.account, digest),
            !.posts = @ + 1, !.post = "pending", !.pc = "submitting"]

\* axios.post is called with submitData.
IssuePost(a, digest) ==
  [a EXCEPT !.request = SubmitData(a.form, a.account, digest),
            !.posts = @ + 1, !.post = "pending", !.pc = "submitting"]

\* handleSuiPayment up to its await: the signer is called once.
CallSigner(a) ==
  [a EXCEPT !.txb = TRUE, !.signCalls = @ + 1, !.pay = "pending", !.pc = "paying"]

SignerAbsent_Never(a) == FALSE

\* if (!signAndExecuteTransactionBlock) of handleSuiPayment, on its argument.
SignerAbsent(a) == ~a.signer

OnConfirm_PostFirst(a) == IssuePost(CallSigner(a), 0)

\* Confirm is clicked: resolve(true), confirmPayment is true, handleSuiPayment
\* is called with the closure's signer.
OnConfirm(a) ==
  IF SignerAbsent(a)
    THEN Caught(a, "payment", STR_WalletNotConnected)
    ELSE CallSigner(a)

OnCancel_Proceeds(a) == OnConfirm(a)

\* Cancel is clicked: reject(new Error("Payment cancelled")).
OnCancel(a) == Caught(a, "confirm", STR_PaymentCancelled)

OnPaymentResolved_DigestZero(a, result) ==
  IssuePost([a EXCEPT !.pay = "ok", !.receipt = result], 0)

\* The signer's promise resolved: handleSuiPayment returns result, and the
\* branch on paymentResult.status builds and sends the request.
OnPaymentResolved(a, result) ==
  IF result.status = "success"
    THEN IssuePost([a EXCEPT !.pay = "ok", !.receipt = result], result.digest)
    ELSE Return([a EXCEPT !.pay = "ok", !.receipt = result])

OnPaymentRejected_Retry(a, message) == CallSigner([a EXCEPT !.cause = message])

\* The signer's promise rejected: handleSuiPayment's catch block rethrows.
OnPaymentRejected(a, message) ==
  Caught([a EXCEPT !.pay = "failed", !.cause = message], "payment",
         ClassifyPaymentError(message))

ResetFormData_KeepsPicture ==
  [name |-> "", twitter |-> "", website |-> "", description |-> "",
   profilePicture |-> formData.profilePicture]

\* setFormData({ name: "", ... profilePicture: null }) of the success path.
ResetFormData ==
  [name |-> "", twitter |-> "", website |-> "", description |-> "",
   profilePicture |-> NoFile]

OnPostResolved_NoNavigate(a) == Return([a EXCEPT !.post = "ok"])

\* axios.post resolved: the success path, to navigate('/').
OnPostResolved(a) == Return([a EXCEPT !.post = "ok", !.navs = @ + 1])

OnPostRejected_Resend(a, message) == IssuePost([a EXCEPT !.post = "failed"], a.receipt.digest)

\* axios.post rejected.
OnPostRejected(a, message) == Caught([a EXCEPT !.post = "failed"], "post", message)

\* The toast.error of the catch block, when the step went through it.
CatchToasts(a, b) ==
  IF b.error # a.error \/ b.failedAt # a.failedAt
    THEN <<Toast("error", b.shown.line)>> ELSE <<>>

Continue_NoFinally(i, b, toasts) ==
  /\ attempts' = [attempts EXCEPT ![i] = b]
  /\ posted' = IF b.posts > attempts[i].posts
                 THEN Append(posted, b.request.payment_tx) ELSE posted
  /\ loading' = loading
  /\ raised' = toasts \o CatchToasts(attempts[i], b)

\* What one continuation of the invocation in slot i does to the state it
\* shares: the record, the POST it issued, and setLoading(false) of finally.
Continue(i, b, toasts) ==
  /\ attempts' = [attempts EXCEPT ![i] = b]
  /\ posted' = IF b.posts > attempts[i].posts
                 THEN Append(posted, b.request.payment_tx) ELSE posted
  /\ loading' = IF Live(b) THEN loading ELSE FALSE
  /\ raised' = toasts \o CatchToasts(attempts[i], b)

\* The submit event of the form.
Submit ==
  /\ ~SubmitDisabled
  /\ IF WalletMissing
       THEN /\ raised' = <<Toast("error", 55)>>
            /\ UNCHANGED <<loading, attempts>>
     ELSE IF SignerMissing
       THEN /\ raised' = <<Toast("error", 60)>>
            /\ UNCHANGED <<loading, attempts>>
     ELSE IF RequiredMissing(formData)
       THEN /\ raised' = <<Toast("error", 65)>>
            /\ UNCHANGED <<loading, attempts>>
     ELSE /\ HasFreeSlot
          /\ loading' = TRUE
          /\ attempts' = [attempts EXCEPT ![FreeSlot] = NewAttempt(formData, account, signer)]
          /\ raised' = <<Toast("blank", 75), Toast("loading", 102)>>
  /\ UNCHANGED <<binding, wallet, formData, previewUrl, readers, posted, nextDigest>>

\* The user clicks Confirm in the prompt of the invocation in slot i.
Confirm ==
  \E i \in Slots :
    /\ attempts[i].pc = "confirm"
    /\ Continue(i, OnConfirm(attempts[i]),
                <<Toast("success", 103), Toast("loading", 110)>>)
    /\ UNCHANGED <<binding, wallet, formData, previewUrl, readers, nextDigest>>

\* The user clicks Cancel in the prompt of the invocation in slot i.
Cancel ==
  \E i \in Slots :
    /\ attempts[i].pc = "confirm"
    /\ Continue(i, OnCancel(attempts[i]), <<Toast("error", 104)>>)
    /\ UNCHANGED <<binding, wallet, formData, previewUrl, readers, nextDigest>>

\* The wallet executed the transaction of the invocation in slot i.
PaymentResolves ==
  \E i \in Slots :
    /\ attempts[i].pc = "paying"
    /\ nextDigest <= MaxPayments
    /\ Continue(i, OnPaymentResolved(attempts[i], PaymentResult(nextDigest)),
                <<Toast("success", 115), Toast("loading", 118)>>)
    /\ nextDigest' = nextDigest + 1
    /\ UNCHANGED <<binding, wallet, formData, previewUrl, readers>>

\* The signer call of the invocation in slot i failed.
PaymentRejects ==
  \E i \in Slots, message \in PayErrors :
    /\ attempts[i].pc = "paying"
    /\ Continue(i, OnPaymentRejected(attempts[i], message), <<>>)
    /\ UNCHANGED <<binding, wallet, formData, previewUrl, readers, nextDigest>>

\* The backend acknowledged the POST of the invocation in slot i.
PostResolves ==
  \E i \in Slots :
    /\ attempts[i].pc = "submitting"
    /\ Continue(i, OnPostResolved(attempts[i]), <<Toast("success", 137)>>)
    /\ formData' = ResetFormData
    /\ previewUrl' = NullUrl
    /\ UNCHANGED <<binding, wallet, readers, nextDigest>>

\* The POST of the invocation in slot i failed.
PostRejects ==
  \E i \in Slots, message \in PostErrors :
    /\ attempts[i].pc = "submitting"
    /\ Continue(i, OnPostRejected(attempts[i], message), <<>>)
    /\ UNCHANGED <<binding, wallet, formData, previewUrl, readers, nextDigest>>

Next ==
  \/ WalletChange
  \/ EditField
  \/ ImageUpload
  \/ ReadEnds
  \/ Submit
  \/ Confirm
  \/ Cancel
  \/ PaymentResolves
  \/ PaymentRejects
  \/ PostResolves
  \/ PostRejects

Spec == Init /\ [][Next]_vars

(* ------------------------ the image picker alone ----------------------- *)

\* onChange of the file input, for a file of the album.
AlbumUpload ==
  /\ \E file \in Album \cup {NoFile} : SelectFile(file)
  /\ UNCHANGED <<binding, wallet, loading, previewUrl, attempts, posted, nextDigest>>

NextImages ==
  \/ AlbumUpload
  \/ ReadEnds

\* The file input and its FileReaders, with two acceptable images to choose.
SpecImages == Init /\ [][NextImages]_vars

(* --------------- handleSuiPayment called by any importer --------------- *)

\* handleSuiPayment is exported: a slot here holds one call of it, with the
\* argument in signer, and keeps what the call returned or threw.

\* An error leaving handleSuiPayment.
PaymentThrown(a, message) ==
  [a EXCEPT !.pc = "done", !.failedAt = "payment", !.error = message]

\* The call up to its first await: the guard on the argument, which throws
\* outside the try block, or the transaction block and the signer call.
PaymentCalled(sgn) ==
  LET a == [Unused EXCEPT !.signer = sgn]
  IN  IF SignerAbsent(a) THEN PaymentThrown(a, STR_WalletNotConnected) ELSE CallSigner(a)

\* return { digest, status, amount, receiver }
PaymentReturned(a, result) ==
  [a EXCEPT !.pc = "done", !.pay = "ok", !.receipt = result]

\* The catch block of handleSuiPayment.
PaymentFailed(a, message) ==
  PaymentThrown([a EXCEPT !.pay = "failed", !.cause = message],
                ClassifyPaymentError(message))

DirectCall ==
  /\ HasFreeSlot
  /\ \E sgn \in BOOLEAN : attempts' = [attempts EXCEPT ![FreeSlot] = PaymentCalled(sgn)]
  /\ raised' = <<>>
  /\ UNCHANGED <<binding, wallet, loading, formData, previewUrl, readers, posted,
                 nextDigest>>

DirectResolves ==
  /\ \E i \in Slots :
       /\ attempts[i].pc = "paying"
       /\ nextDigest <= MaxPayments
       /\ attempts' = [attempts EXCEPT
                         ![i] = PaymentReturned(attempts[i], PaymentResult(nextDigest))]
  /\ nextDigest' = nextDigest + 1
  /\ raised' = <<>>
  /\ UNCHANGED <<binding, wallet, loading, formData, previewUrl, readers, posted>>

DirectRejects ==
  /\ \E i \in Slots, message \in PayErrors :
       /\ attempts[i].pc = "paying"
       /\ attempts' = [attempts EXCEPT ![i] = PaymentFailed(attempts[i], message)]
  /\ raised' = <<>>
  /\ UNCHANGED <<binding, wallet, loading, formData, previewUrl, readers, posted,
                 nextDigest>>

NextPayment ==
  \/ DirectCall
  \/ DirectResolves
  \/ DirectRejects

\* Calls of handleSuiPayment with any argument, under either binding.
SpecPayment == InitBuilds /\ [][NextPayment]_vars

\* The steps of the form and of handleSubmit, without the image picker.
NextWorkflow ==
  \/ WalletChange
  \/ EditField
  \/ Submit
  \/ Confirm
  \/ Cancel
  \/ PaymentResolves
  \/ PaymentRejects
  \/ PostResolves
  \/ PostRejects

\* The workflow under either binding of handleSuiPayment.
SpecBuilds == InitBuilds /\ [][NextWorkflow]_vars

\* The workflow with a user who answers every prompt and outbound calls that
\* complete: a prompt that is open is eventually answered, the promise of a
\* signer call and the promise of a POST are eventually settled.
FairSpec ==
  /\ Init
  /\ [][NextWorkflow]_vars
  /\ WF_vars(Confirm \/ Cancel)
  /\ WF_vars(PaymentResolves \/ PaymentRejects)
  /\ WF_vars(PostResolves \/ PostRejects)

(* ------------------------------ properties ----------------------------- *)

\* Some slot takes a new invocation in this step.
Started(i) == attempts'[i].pc = "confirm" /\ attempts[i].pc # "confirm"

\* The number of toast.error calls among the toast calls of the latest step.
ErrorToasts(toasts) == Cardinality({k \in 1..Len(toasts) : toasts[k].kind = "error"})

Idle == \A i \in Slots : ~Live(attempts[i])

\* C1: a POST /api/proposals is issued or in flight only for an invocation
\* whose own sign-and-execute call has completed successfully, and it carries
\* the digest of that call's receipt; every digest POSTed was issued by the
\* wallet.
C1_PostOnlyAfterPayment ==
  /\ \A i \in Slots :
       LET a == attempts[i] IN
         /\ (a.posts > 0 \/ a.post # "unissued") => (a.pay = "ok" /\ a.signCalls >= 1)
         /\ a.pc = "submitting" =>
              /\ a.receipt.status = "success"
              /\ a.request.payment_tx = a.receipt.digest
  /\ \A k \in 1..Len(posted) : posted[k] \in 1..(nextDigest - 1)

C1_Witness ==
  \E i \in Slots :
    /\ attempts[i].pc = "submitting"
    /\ attempts[i].post = "pending"
    /\ attempts[i].pay = "ok"
    /\ Len(posted) >= 1

\* C2: a submit event on a draft whose name, twitter or description is empty
\* shows no prompt and issues no wallet or HTTP call, and leaves the form
\* state and the loading flag as they were.
C2_MissingFieldsAbort ==
  [][ ( /\ formData.name = "" \/ formData.twitter = "" \/ formData.description = ""
        /\ \/ \E i \in Slots : Started(i)
           \/ raised' \in {<<Toast("error", 55)>>, <<Toast("error", 60)>>,
                           <<Toast("error", 65)>>} )
      => UNCHANGED <<loading, formData, previewUrl, attempts, posted, nextDigest>> ]_vars

C2_Witness ==
  /\ raised = <<Toast("error", 65)>>
  /\ formData.name # "" /\ formData.twitter # "" /\ formData.description = ""
  /\ ~loading
  /\ Idle

\* C3: a click on Cancel ends the invocation with the error "Payment
\* cancelled", reported as cancelled by the user, with no signer call and no
\* POST; formData and previewUrl keep their values and loading is false.
C3_CancelLeavesForm ==
  [][ \A i \in Slots :
        ( /\ attempts[i].pc = "confirm"
          /\ attempts'[i] # attempts[i]
          /\ Len(raised') >= 1
          /\ raised'[1] = Toast("error", 104) )
        => /\ attempts'[i].pc = "done"
           /\ attempts'[i].failedAt = "confirm"
           /\ attempts'[i].error = STR_PaymentCancelled
           /\ attempts'[i].shown.line = 154
           /\ attempts'[i].signCalls = 0 /\ attempts'[i].pay = "unissued"
           /\ attempts'[i].posts = 0 /\ attempts'[i].post = "unissued"
           /\ posted' = posted
           /\ formData' = formData
           /\ previewUrl' = previewUrl
           /\ loading' = FALSE ]_vars

C3_Witness ==
  \E i \in Slots :
    /\ attempts[i].pc = "done"
    /\ attempts[i].failedAt = "confirm"
    /\ attempts[i].signCalls = 0
    /\ formData.name = "Bot" /\ formData.website # ""
    /\ ~loading

\* C4: when the POST fails after a successful payment the invocation ends:
\* no invocation is live, loading is false, the form is as entered, the
\* receipt and the request are gone, and a finished invocation issues no
\* further signer call or POST (its slot changes only when a new submit
\* event starts a fresh invocation in it).
C4_BackendFailureEnds ==
  [][ \A i \in Slots :
        /\ ( /\ attempts[i].pc = "submitting"
             /\ attempts'[i] # attempts[i]
             /\ attempts'[i].post # "ok" )
           => /\ attempts'[i].pc = "done"
              /\ attempts'[i].failedAt = "post"
              /\ attempts'[i].pay = "ok" /\ attempts'[i].post = "failed"
              /\ attempts'[i].receipt = NoReceipt
              /\ attempts'[i].request = NoRequest
              /\ attempts'[i].signCalls = attempts[i].signCalls
              /\ attempts'[i].posts = attempts[i].posts
              /\ posted' = posted
              /\ nextDigest' = nextDigest
              /\ formData' = formData
              /\ previewUrl' = previewUrl
              /\ loading' = FALSE
              /\ \A j \in Slots : ~Live(attempts'[j])
        /\ ( attempts[i].pc = "done" /\ attempts'[i] # attempts[i] )
           => /\ attempts'[i].pc = "confirm"
              /\ attempts'[i].signCalls = 0 /\ attempts'[i].posts = 0
              /\ attempts'[i].receipt = NoReceipt
              /\ posted' = posted ]_vars

C4_Witness ==
  \E i \in Slots :
    /\ attempts[i].pc = "done"
    /\ attempts[i].failedAt = "post"
    /\ attempts[i].pay = "ok" /\ attempts[i].post = "failed"
    /\ formData.name = "Bot"
    /\ ~loading

\* C5: at most one invocation of handleSubmit is live at any time.
C5_SingleLiveAttempt == Cardinality({i \in Slots : Live(attempts[i])}) <= 1

\* An invocation is live and nothing but the loading flag keeps the submit
\* button from dispatching a second submit event that would pass validation.
C5_Witness ==
  /\ \E i \in Slots : Live(attempts[i])
  /\ connected /\ account # NoAccount /\ signer
  /\ formData.name # "" /\ formData.twitter # "" /\ formData.description # ""
  /\ loading

\* C6: when the backend acknowledges the POST, formData is reset to empty
\* text fields and no picture, previewUrl is null, navigate is called once by
\* the invocation, no invocation is live and loading is false.
C6_SuccessResets ==
  [][ \A i \in Slots :
        ( /\ attempts[i].pc = "submitting"
          /\ attempts'[i] # attempts[i]
          /\ attempts'[i].post = "ok" )
        => /\ formData' = [name |-> "", twitter |-> "", website |-> "",
                           description |-> "", profilePicture |-> NoFile]
           /\ previewUrl' = NullUrl
           /\ attempts[i].navs = 0 /\ attempts'[i].navs = 1
           /\ attempts'[i].pc = "done"
           /\ attempts'[i].failedAt = "(none)"
           /\ loading' = FALSE
           /\ \A j \in Slots : ~Live(attempts'[j]) ]_vars

C6_Witness ==
  \E i \in Slots :
    /\ attempts[i].pc = "done"
    /\ attempts[i].pay = "ok" /\ attempts[i].post = "ok"
    /\ attempts[i].navs = 1
    /\ formData = InitialFormData
    /\ previewUrl = NullUrl
    /\ raised = <<Toast("success", 137)>>
    /\ ~loading

\* Whether the letter c is the letter n, written in lower case, in either case.
SameLetter(c, n) ==
  \/ c = n
  \/ \E k \in 1..Len(LowerCase) : LowerCase[k] = n /\ UpperCase[k] = c

\* Whether a message mentions a lower-case word, whatever the case of its letters.
Mentions(message, word) ==
  /\ message # Undefined
  /\ message # NoError
  /\ \E p \in 1..Len(message) :
       /\ p + Len(word) - 1 <= Len(message)
       /\ \A k \in 1..Len(word) : SameLetter(message[p + k - 1], word[k])

\* C7: a signer error whose message mentions "insufficient" in any case is
\* rethrown as "Insufficient SUI balance"; otherwise one that mentions
\* "reject" is rethrown as "User rejected the transaction"; otherwise the
\* error is passed on with its message unchanged.
C7_PaymentErrorClasses ==
  \A i \in Slots :
    LET a == attempts[i] IN
      a.pay = "failed" =>
        /\ a.failedAt = "payment"
        /\ Mentions(a.cause, STR_insufficient) => a.error = STR_InsufficientSuiBalance
        /\ (~Mentions(a.cause, STR_insufficient) /\ Mentions(a.cause, STR_reject))
             => a.error = STR_UserRejectedTheTransaction
        /\ (~Mentions(a.cause, STR_insufficient) /\ ~Mentions(a.cause, STR_reject))
             => a.error = a.cause

\* A signer error that mentions both words, in mixed case.
C7_Witness ==
  \E i \in Slots :
    /\ attempts[i].pay = "failed"
    /\ Mentions(attempts[i].cause, STR_insufficient)
    /\ Mentions(attempts[i].cause, STR_reject)
    /\ attempts[i].cause[1] = "R"
    /\ attempts[i].error = STR_InsufficientSuiBalance

\* C8: every failure of an invocation (cancel, payment failure, backend
\* failure) ends it with exactly one error notification.
C8_OneErrorNotification ==
  [][ \A i \in Slots :
        ( /\ Live(attempts[i])
          /\ ~Live(attempts'[i])
          /\ attempts'[i].failedAt # "(none)" )
        => ErrorToasts(raised') = 1 ]_vars

\* The picture and the preview are of a file within the limit whose MIME
\* type begins with image/.
AcceptableFile(size, mime) ==
  /\ size <= 5242880
  /\ Len(mime) >= 6
  /\ <<mime[1], mime[2], mime[3], mime[4], mime[5], mime[6]>> =
       <<"i", "m", "a", "g", "e", "/">>

\* The step handleImageUpload takes for an image of exactly 5 MiB.
AcceptsExactLimit ==
  /\ ImageUpload
  /\ formData'.profilePicture.size = 5242880
  /\ formData'.profilePicture \in readers'

\* C9: handleImageUpload attaches no file above 5 MiB and no file whose MIME
\* type does not begin with image/, and a rejection leaves
\* formData.profilePicture, previewUrl and the pending reads as they were; an
\* image of exactly 5 MiB is accepted.
C9_UploadValidation ==
  /\ [](/\ formData.profilePicture # NoFile =>
             AcceptableFile(formData.profilePicture.size, formData.profilePicture.type)
        /\ \A f \in readers : AcceptableFile(f.size, f.type)
        /\ previewUrl # NullUrl => AcceptableFile(0, previewUrl.mime)
        /\ ENABLED AcceptsExactLimit)
  /\ [][ raised' \in {<<Toast("error", 33)>>, <<Toast("error", 38)>>}
         => UNCHANGED <<formData, previewUrl, readers, loading, attempts>> ]_vars

\* A rejection that kept an attached picture and its preview.
C9_Witness ==
  /\ raised \in {<<Toast("error", 33)>>, <<Toast("error", 38)>>}
  /\ formData.profilePicture.size = 5242880
  /\ previewUrl = DataURL(formData.profilePicture)

\* C10: an invocation makes at most one signer call and at most one POST, no
\* two POSTs carry the same digest, and the POSTs issued never outnumber the
\* successful payments.
C10_AtMostOnce ==
  /\ \A i \in Slots : attempts[i].signCalls <= 1 /\ attempts[i].posts <= 1
  /\ \A j, k \in 1..Len(posted) : j # k => posted[j] # posted[k]
  /\ Len(posted) <= nextDigest - 1

\* Two invocations each paid and POSTed; the POST of the second failed.
C10_Witness ==
  /\ Len(posted) = 2
  /\ \E i \in Slots : attempts[i].pc = "done" /\ attempts[i].post = "failed"

\* C11: a submit event fired while the wallet is not connected, the account
\* is absent or the signer is null raises one validation error and nothing
\* else: no invocation starts (no prompt, no wallet call, no POST) and the
\* form state and the loading flag are unchanged.
C11_WalletChecksAbort ==
  [][ ( /\ ~connected \/ account = NoAccount \/ ~signer
        /\ \/ \E i \in Slots : Started(i)
           \/ raised' \in {<<Toast("error", 55)>>, <<Toast("error", 60)>>,
                           <<Toast("error", 65)>>} )
      => /\ raised' \in {<<Toast("error", 55)>>, <<Toast("error", 60)>>}
         /\ UNCHANGED <<loading, formData, previewUrl, attempts, posted, nextDigest>> ]_vars

\* The submit button is enabled, the draft is complete, and only the null
\* signer stopped the submit event.
C11_Witness ==
  /\ raised = <<Toast("error", 60)>>
  /\ connected /\ account # NoAccount /\ ~signer
  /\ formData.name # "" /\ formData.twitter # "" /\ formData.description # ""
  /\ ~loading
  /\ Idle

\* C12 as stated: while an attempt is live, no step changes formData other than
\* a step of that attempt.
C12_NoOtherWriter ==
  [][ \A i \in Slots :
        (Live(attempts[i]) /\ formData' # formData) => attempts'[i] # attempts[i] ]_vars

\* C12, amended: field edits and image selections stay possible while an
\* attempt is live and do change formData, but what the attempt holds does not
\* move: the draft and the account of its closure are the same for as long as
\* it is live, and the attempt itself writes formData only in the reset that
\* follows a successful POST.
C12_ClosureHasNoOtherWriter ==
  [][ \A i \in Slots :
        Live(attempts[i]) =>
          /\ Live(attempts'[i]) =>
               /\ attempts'[i].form = attempts[i].form
               /\ attempts'[i].account = attempts[i].account
          /\ (attempts'[i] # attempts[i] /\ attempts'[i].post # "ok")
               => formData' = formData ]_vars

\* An attempt has reached its POST while the form on screen has been edited
\* away from the draft the attempt holds.
C12_Witness ==
  \E i \in Slots :
    /\ attempts[i].pc = "submitting"
    /\ attempts[i].form.name # ""
    /\ formData.name = ""
    /\ attempts[i].request.name = attempts[i].form.name

\* C13: every receipt of a successful payment carries the digest the signer
\* answered with, status "success", the amount 1,000,000,000 and the receiver
\* address of the bound copy of handleSuiPayment; the binding never changes,
\* so the amount and the receiver are the same for every payment.
C13_ReceiptConstants ==
  /\ [](\A i \in Slots :
          attempts[i].receipt # NoReceipt =>
            /\ attempts[i].receipt.digest = nextDigest - 1
            /\ attempts[i].receipt.status = "success"
            /\ attempts[i].receipt.amount = 1000000000
            /\ attempts[i].receipt.receiver = Receiver
            /\ attempts[i].receipt.receiver \in
                 {FUND_RECEIVER_ADDRESS, FUND_RECEIVER_ADDRESS_2})
  /\ [][binding' = binding]_vars

\* The second payment of a session has returned its receipt, under the second
\* copy of the module.
C13_Witness ==
  \E i \in Slots :
    /\ binding = "second"
    /\ attempts[i].receipt # NoReceipt
    /\ attempts[i].receipt.digest = 2
    /\ attempts[i].pc = "submitting"

\* C14: a call of handleSuiPayment with an absent signer throws "Wallet not
\* connected" at once: no transaction block is built, no signer is invoked,
\* and the error does not pass through the catch block that classifies signer
\* errors.
C14_AbsentSignerNotConnected ==
  \A i \in Slots :
    (attempts[i].pc # "unused" /\ ~attempts[i].signer) =>
      /\ attempts[i].pc = "done"
      /\ attempts[i].error = STR_WalletNotConnected
      /\ ~attempts[i].txb
      /\ attempts[i].signCalls = 0
      /\ attempts[i].pay = "unissued"
      /\ attempts[i].cause = NoError
      /\ attempts[i].error \notin {STR_InsufficientSuiBalance, STR_UserRejectedTheTransaction}
      /\ attempts[i].receipt = NoReceipt

\* One call was made without a signer and has thrown, while a call made with
\* a signer is awaiting it.
C14_Witness ==
  \E i, j \in Slots :
    /\ attempts[i].pc = "done" /\ ~attempts[i].signer
    /\ attempts[i].error = STR_WalletNotConnected
    /\ attempts[j].pc = "paying" /\ attempts[j].signer /\ attempts[j].txb

\* C15: when the signer call fails the invocation ends and reports the class
\* of the failure: a message that mentions "insufficient" as insufficient
\* balance (line 158), otherwise one that mentions "reject" as rejected by the
\* user (line 156), otherwise the original message (line 160; the fallback
\* text when the error has no message); no POST is issued, formData is
\* unchanged and loading is false.
C15_PaymentFailureReported ==
  [][ \A i \in Slots :
        (attempts[i].pc = "paying" /\ attempts'[i].pay = "failed") =>
          LET b == attempts'[i]
              insufficient == Mentions(b.cause, STR_insufficient)
              rejected == ~insufficient /\ Mentions(b.cause, STR_reject)
          IN  /\ ~Live(b)
              /\ insufficient =>
                   b.shown = [line |-> 158, text |-> STR_InsufficientSuiBalance]
              /\ rejected =>
                   b.shown = [line |-> 156, text |-> STR_TransactionRejectedByUser]
              /\ (~insufficient /\ ~rejected) =>
                   b.shown = [line |-> 160,
                              text |-> IF b.cause \in {Undefined, <<>>}
                                         THEN STR_TransactionFailed ELSE b.cause]
              /\ b.posts = 0 /\ posted' = posted
              /\ formData' = formData
              /\ loading' = FALSE ]_vars

\* C16: when the POST fails after a successful payment the error is reported
\* with its own message (line 160), whatever the message is, and never as a
\* cancelled payment, a rejected transaction or an insufficient balance.
C16_BackendFailureReported ==
  [][ \A i \in Slots :
        (attempts[i].pc = "submitting" /\ attempts'[i].post = "failed") =>
          /\ attempts'[i].shown = [line |-> 160, text |-> attempts'[i].error]
          /\ raised' = <<Toast("error", 160)>> ]_vars

\* C17: loading is true exactly while an invocation is live; with a user who
\* answers and calls that complete, every invocation that passed validation
\* reaches the end of its finally block, with no invocation live and loading
\* false; and an invocation at its prompt is moved on by nothing but the
\* user's answer, the submit button being disabled for as long as it waits.
C17_LoadingUntilReturn ==
  /\ [](loading <=> \E i \in Slots : Live(attempts[i]))
  /\ (\E i \in Slots : Live(attempts[i])) ~> (Idle /\ ~loading)
  /\ [](\A i \in Slots : attempts[i].pc = "confirm" => SubmitDisabled)
  /\ [][ \A i \in Slots :
           (attempts[i].pc = "confirm" /\ attempts'[i] # attempts[i]) =>
             /\ Len(raised') >= 1
             /\ raised'[1] \in {Toast("success", 103), Toast("error", 104)} ]_vars

\* An invocation that went through the prompt, the payment and a failed POST
\* has returned: nothing is live and loading is false again.
C17_Witness ==
  /\ ~loading
  /\ Idle
  /\ \E i \in Slots :
       /\ attempts[i].pc = "done"
       /\ attempts[i].pay = "ok"
       /\ attempts[i].post = "failed"

\* C18: an invocation holds the formData and the account of the moment its
\* submit event fired and keeps them while it is live; the request it sends
\* is built from those and from the digest of its own receipt, whatever was
\* edited or whichever account the wallet switched to in between; and the
\* success path overwrites formData, edits included, with the empty draft.
C18_RequestFromSubmitTime ==
  [][ \A i \in Slots :
        LET a == attempts[i]
            b == attempts'[i]
        IN  /\ Started(i) => (b.form = formData /\ b.account = account)
            /\ (Live(a) /\ Live(b)) => (b.form = a.form /\ b.account = a.account)
            /\ (a.pc = "paying" /\ b.pc = "submitting") =>
                 /\ b.receipt.digest = nextDigest
                 /\ b.request =
                      [name |-> a.form.name, twitter |-> a.form.twitter,
                       website |-> a.form.website, description |-> a.form.description,
                       profilePicture |-> a.form.profilePicture,
                       creator_wallet |-> a.account,
                       payment_tx |-> b.receipt.digest]
                 /\ posted' = Append(posted, b.receipt.digest)
            /\ (a.pc = "submitting" /\ b.post = "ok") =>
                 /\ formData' = [name |-> "", twitter |-> "", website |-> "",
                                 description |-> "", profilePicture |-> NoFile]
                 /\ previewUrl' = NullUrl ]_vars

\* A request is in flight whose name and creator_wallet are those of the
\* submit event, after the name was cleared, a picture was chosen and the
\* wallet switched to another account.
C18_Witness ==
  \E i \in Slots :
    /\ attempts[i].pc = "submitting"
    /\ attempts[i].request.name # "" /\ formData.name = ""
    /\ attempts[i].request.profilePicture = NoFile /\ formData.profilePicture # NoFile
    /\ account # NoAccount
    /\ attempts[i].request.creator_wallet # account
    /\ attempts[i].request.payment_tx = attempts[i].receipt.digest

\* C19: once no file read is pending, previewUrl is the data URL of the file
\* held in formData.profilePicture, or null when none is held.
C19_PreviewMatchesPicture ==
  readers = {} =>
    previewUrl = IF formData.profilePicture = NoFile
                   THEN NullUrl ELSE DataURL(formData.profilePicture)

====
